---- MODULE Spec2Model ----
(***************************************************************************)
(* Model of the round-lifecycle orchestrator Game (poker/src/game.rs).     *)
(* Game owns one Deck (crate::deck) and one Poker (crate::poker).  Their   *)
(* sources are not part of game.rs; the two collaborators are modelled     *)
(* from the interface the specification gives for them (DeckProtocol and   *)
(* BettingProtocol), the orchestrator itself from game.rs.                 *)
(***************************************************************************)
EXTENDS Integers, Sequences, FiniteSets, TLC

\* ------------------------------------------------------------------ bounds
\* Capacity of the deck protocol's entrant list.
MaxPlayers == 3
\* Card hashes (CryptoHash) are drawn from 0..MaxHash.
MaxHash == 2
\* Room identifiers are drawn from 0..MaxRoomId.
MaxRoomId == 1
\* Display names a Game is constructed with.
Names == {"t1", "t2"}

\* ------------------------------------------------------- program constants
\* Deck::new(52)
NumCards == 52
\* self.poker.new_player(1000)
StartingStake == 1000

\* --------------------------------------------------------------- the state
VARIABLES
  name,      \* Game.name
  id,        \* Game.id
  status,    \* Game.status : GameStatus
  deck,      \* Game.deck   : Deck
  poker,     \* Game.poker  : Poker
  lastOp,    \* the operation called last ("new" after construction)
  lastRes,   \* what that call returned
  prev,      \* the Game value right before that call
  closedOk,  \* close() has returned Ok at some point
  closedBefore, \* closedOk as it was before the last call
  startedOk, \* start() has returned Ok at some point
  startedBefore, \* startedOk as it was before the last call
  entered,   \* how many enter() calls have returned Ok
  lastArg,   \* the hash passed to the last call (NoArg when it takes none)
  ctor,      \* the arguments Game::new was called with
  snap       \* the snapshot an accessor returned last, held by the caller

vars == <<name, id, status, deck, poker, lastOp, lastRes, prev, closedOk,
          closedBefore, startedOk, startedBefore, entered, lastArg, ctor, snap>>

\* ------------------------------------------------------------- DeckStatus
\* A deck substatus is a record [kind, turn]; turn is 0 where the substatus
\* carries no data.
DS(kind, turn) == [kind |-> kind, turn |-> turn]
DS_Initiating == DS("Initiating", 0)
DS_Running == DS("Running", 0)
DS_Closed == DS("Closed", 0)
DS_Shuffling(p) == DS("Shuffling", p)
DS_Revealing(t) == DS("Revealing", t)
\* The substatus slot of a GameStatus variant that carries none.
NoSub == DS("None", 0)

\* An invalid (rejected) hash; every other hash verifies.
InvalidHash == 0
Hashes == 0..MaxHash
\* The digest standing for the unshuffled card vector of a new deck.
FreshCards == 1

\* ------------------------------------------------------------- GameStatus
GS(tag, sub) == [tag |-> tag, sub |-> sub]
Initiating == GS("Initiating", NoSub)
Idle == GS("Idle", NoSub)
DeckAction(s) == GS("DeckAction", s)
PokerAction(s) == GS("PokerAction", s)
Closed == GS("Closed", NoSub)

\* -------------------------------------------------------------- GameError
Res(variant, inner) == [variant |-> variant, inner |-> inner]
Ok == Res("Ok", "None")
DeckErr(e) == Res("DeckError", e)
RoomIdNotFound == Res("RoomIdNotFound", "None")
OngoingRound == Res("OngoingRound", "None")
IsOk(r) == r.variant = "Ok"
\* A plausible slip: every deck failure is reported as the same generic error.
FromDeckError_generic(r) == IF IsOk(r) THEN r ELSE RoomIdNotFound

\* impl From<DeckError> for GameError
FromDeckError(r) == IF IsOk(r) THEN r ELSE DeckErr(r.inner)

\* ------------------------------------------------- Deck (DeckProtocol)
\* The deck protocol: entrants join while the deck is in its initial
\* substatus; start begins the shuffle; every entrant shuffles in turn, then
\* every entrant submits a reveal part, finish_reveal completes the reveal
\* and the deck is ready to play ("Running").  A rejected call leaves the
\* deck as it was; a closed deck rejects every call.
\* A deck operation returns [deck |-> the deck after, res |-> Ok or an error].
DeckRet(d, r) == [deck |-> d, res |-> r]

Deck_new(n) ==
  [status |-> DS_Initiating, players |-> 0, cards |-> FreshCards, num_cards |-> n]

Deck_get_status(d) == d.status

Deck_enter(d) ==
  IF d.status # DS_Initiating THEN DeckRet(d, Res("Err", "DeckInProgress"))
  ELSE IF d.players >= MaxPlayers THEN DeckRet(d, Res("Err", "DeckFull"))
  ELSE DeckRet([d EXCEPT !.players = @ + 1], Ok)

Deck_start(d) ==
  IF d.status # DS_Initiating THEN DeckRet(d, Res("Err", "DeckInProgress"))
  ELSE DeckRet([d EXCEPT !.status = DS_Shuffling(0)], Ok)

Deck_close(d) == [d EXCEPT !.status = DS_Closed]

Deck_get_partial_shuffle(d) ==
  IF d.status \in {DS_Initiating, DS_Closed}
  THEN [res |-> Res("Err", "DeckNotInShufflingState"), cards |-> 0]
  ELSE [res |-> Ok, cards |-> d.cards]

Deck_submit_shuffled(d, new_cards) ==
  IF d.status.kind # "Shuffling"
  THEN DeckRet(d, Res("Err", "DeckNotInShufflingState"))
  ELSE IF new_cards = InvalidHash THEN DeckRet(d, Res("Err", "InvalidCards"))
  ELSE DeckRet([d EXCEPT !.cards = new_cards,
                         !.status = IF d.status.turn + 1 < d.players
                                    THEN DS_Shuffling(d.status.turn + 1)
                                    ELSE DS_Revealing(0)], Ok)

Deck_submit_reveal_part(d, card) ==
  IF d.status.kind # "Revealing"
  THEN DeckRet(d, Res("Err", "DeckNotInRevealingState"))
  ELSE IF card = InvalidHash \/ d.status.turn >= d.players
  THEN DeckRet(d, Res("Err", "InvalidCards"))
  ELSE DeckRet([d EXCEPT !.status = DS_Revealing(d.status.turn + 1)], Ok)

Deck_finish_reveal(d) ==
  IF d.status.kind # "Revealing"
  THEN DeckRet(d, Res("Err", "DeckNotInRevealingState"))
  ELSE IF d.status.turn < d.players
  THEN DeckRet(d, Res("Err", "RevealInProgress"))
  ELSE DeckRet([d EXCEPT !.status = DS_Running], Ok)

\* ----------------------------------------------- Poker (BettingProtocol)
Poker_new == [players |-> <<>>, steps |-> 0]
Poker_new_player(p, stake) == [p EXCEPT !.players = Append(@, stake)]
\* advance to the next decision point
Poker_next(p) == [p EXCEPT !.steps = @ + 1]
Poker_status(p) == DS("PokerStep", p.steps)

\* ------------------------------------------------------------------- Game
\* A Game value; a Game operation returns [g |-> the Game after, res |-> ...].
GameRec(n, i, s, d, p) == [name |-> n, id |-> i, status |-> s, deck |-> d, poker |-> p]
Ret(g, r) == [g |-> g, res |-> r]

\* GameStatus::is_active / is_initiating
is_active(s) == s # Closed
is_initiating(s) == s = DeckAction(DS_Initiating)

\* A plausible slip: a new Game starts in Idle.
new_starts_idle(n, i) == GameRec(n, i, Idle, Deck_new(NumCards), Poker_new)

\* Game::new
new(n, i) == GameRec(n, i, Initiating, Deck_new(NumCards), Poker_new)

\* A plausible slip: the entrant joins the deck but is never registered for betting.
enter_forgets_player(g) ==
  LET r == Deck_enter(g.deck)
  IN IF ~IsOk(r.res) THEN Ret(g, FromDeckError(r.res))
     ELSE Ret([g EXCEPT !.deck = r.deck], Ok)

\* A plausible slip: enter() gets the phase guard start() and close() have.
enter_phase_guarded(g) ==
  IF g.status \in {Initiating, Idle}
  THEN LET r == Deck_enter(g.deck)
       IN IF ~IsOk(r.res) THEN Ret(g, FromDeckError(r.res))
          ELSE Ret([g EXCEPT !.deck = r.deck,
                             !.poker = Poker_new_player(@, StartingStake)], Ok)
  ELSE Ret(g, OngoingRound)

\* A plausible slip: the participant is registered before the deck is asked.
enter_registers_first(g) ==
  LET r == Deck_enter(g.deck)
      g1 == [g EXCEPT !.poker = Poker_new_player(@, StartingStake)]
  IN IF ~IsOk(r.res) THEN Ret(g1, FromDeckError(r.res))
     ELSE Ret([g1 EXCEPT !.deck = r.deck], Ok)

\* Game::enter
enter(g) ==
  LET r == Deck_enter(g.deck)
  IN IF ~IsOk(r.res) THEN Ret(g, FromDeckError(r.res))
     ELSE Ret([g EXCEPT !.deck = r.deck,
                        !.poker = Poker_new_player(@, StartingStake)], Ok)

\* A plausible slip: the phase guard also lets a round in the deck phase through.
start_guard_too_wide(g) ==
  IF g.status \in {Initiating, Idle} \/ g.status.tag = "DeckAction"
  THEN LET r == Deck_start(g.deck)
       IN IF ~IsOk(r.res) THEN Ret(g, FromDeckError(r.res))
          ELSE Ret([g EXCEPT !.deck = r.deck,
                             !.status = DeckAction(Deck_get_status(r.deck))], Ok)
  ELSE Ret(g, OngoingRound)

\* A plausible slip: the deck status is read before the deck is started.
start_reads_status_early(g) ==
  IF g.status \in {Initiating, Idle}
  THEN LET r == Deck_start(g.deck)
       IN IF ~IsOk(r.res) THEN Ret(g, FromDeckError(r.res))
          ELSE Ret([g EXCEPT !.deck = r.deck,
                             !.status = DeckAction(Deck_get_status(g.deck))], Ok)
  ELSE Ret(g, OngoingRound)

\* Game::start
start(g) ==
  IF g.status \in {Initiating, Idle}
  THEN LET r == Deck_start(g.deck)
       IN IF ~IsOk(r.res) THEN Ret(g, FromDeckError(r.res))
          ELSE Ret([g EXCEPT !.deck = r.deck,
                             !.status = DeckAction(Deck_get_status(r.deck))], Ok)
  ELSE Ret(g, OngoingRound)

\* A plausible slip: close() without its phase guard.
close_no_guard(g) ==
  Ret([g EXCEPT !.deck = Deck_close(@), !.status = Closed], Ok)

\* A plausible slip: close() forgets to close the deck.
close_keeps_deck(g) ==
  IF g.status \in {Initiating, Idle}
  THEN Ret([g EXCEPT !.status = Closed], Ok)
  ELSE Ret(g, OngoingRound)

\* Game::close
close(g) ==
  IF g.status \in {Initiating, Idle}
  THEN Ret([g EXCEPT !.deck = Deck_close(@), !.status = Closed], Ok)
  ELSE Ret(g, OngoingRound)

\* A plausible slip: the status is left alone while the deck still holds control.
check_next_status_no_mirror(g) ==
  LET deck_status == Deck_get_status(g.deck)
  IN IF deck_status # DS_Running THEN g
     ELSE [g EXCEPT !.poker = Poker_next(@)]

\* The reconciliation with the hand-over filled in: a ready deck moves status
\* to PokerAction.
check_next_status_hands_over(g) ==
  LET deck_status == Deck_get_status(g.deck)
  IN IF deck_status # DS_Running
     THEN [g EXCEPT !.status = DeckAction(deck_status)]
     ELSE LET p == Poker_next(g.poker)
          IN [g EXCEPT !.poker = p, !.status = PokerAction(Poker_status(p))]

\* A plausible slip: a ready deck ends the round at once.
check_next_status_to_idle(g) ==
  LET deck_status == Deck_get_status(g.deck)
  IN IF deck_status # DS_Running
     THEN [g EXCEPT !.status = DeckAction(deck_status)]
     ELSE [g EXCEPT !.poker = Poker_next(@), !.status = Idle]

\* Game::check_next_status
check_next_status(g) ==
  LET deck_status == Deck_get_status(g.deck)
  IN IF deck_status # DS_Running
     THEN [g EXCEPT !.status = DeckAction(deck_status)]
     ELSE [g EXCEPT !.poker = Poker_next(@)]

\* Game::get_partial_shuffle
get_partial_shuffle(g) ==
  LET r == Deck_get_partial_shuffle(g.deck)
  IN [g |-> g, res |-> FromDeckError(r.res), cards |-> r.cards]

\* Game::submit_shuffled
submit_shuffled(g, new_cards) ==
  LET r == Deck_submit_shuffled(g.deck, new_cards)
  IN IF ~IsOk(r.res) THEN Ret(g, FromDeckError(r.res))
     ELSE Ret(check_next_status([g EXCEPT !.deck = r.deck]), Ok)

\* Game::finish_reveal
finish_reveal(g) ==
  LET r == Deck_finish_reveal(g.deck)
  IN IF ~IsOk(r.res) THEN Ret(g, FromDeckError(r.res))
     ELSE Ret(check_next_status([g EXCEPT !.deck = r.deck]), Ok)

\* Game::submit_reveal_part
submit_reveal_part(g, card) ==
  LET r == Deck_submit_reveal_part(g.deck, card)
  IN IF ~IsOk(r.res) THEN Ret(g, FromDeckError(r.res))
     ELSE Ret(check_next_status([g EXCEPT !.deck = r.deck]), Ok)

\* ------------------------------------------------- read accessors
\* What a caller holds after an accessor returned: the kind of value, the
\* value in the slot of its kind (the other slots are blank), and whether it
\* is a live reference into the Game (live) or a value of its own.
Snapshot(kind, d, p, s, c, live) ==
  [kind |-> kind, deck |-> d, poker |-> p, status |-> s, cards |-> c, live |-> live]
BlankDeck == Deck_new(0)
NoSnapshot == Snapshot("none", BlankDeck, Poker_new, Closed, 0, FALSE)

\* A plausible slip: the accessor hands out the deck itself, not a copy.
deck_state_borrowed(g) == Snapshot("deck", g.deck, Poker_new, Closed, 0, TRUE)

\* Game::deck_state
deck_state(g) == Snapshot("deck", g.deck, Poker_new, Closed, 0, FALSE)

\* Game::poker_state
poker_state(g) == Snapshot("poker", BlankDeck, g.poker, Closed, 0, FALSE)

\* Game::state
state(g) == Snapshot("status", BlankDeck, Poker_new, g.status, 0, FALSE)

\* What the caller of get_partial_shuffle holds: the returned card vector.
PartialShuffle(r) ==
  IF IsOk(r.res) THEN Snapshot("cards", BlankDeck, Poker_new, Closed, r.cards, FALSE)
  ELSE NoSnapshot

\* A snapshot that is a live reference shows the Game as it is now.
Refresh(sn, g) ==
  IF ~sn.live THEN sn
  ELSE [sn EXCEPT !.deck = IF sn.kind = "deck" THEN g.deck ELSE @,
                  !.poker = IF sn.kind = "poker" THEN g.poker ELSE @,
                  !.status = IF sn.kind = "status" THEN g.status ELSE @]

\* ------------------------------------------------------ the state machine
Self == GameRec(name, id, status, deck, poker)
NoArg == 0 - 1

Init ==
  \E n \in Names, i \in 0..MaxRoomId :
    LET g == new(n, i)
    IN /\ name = g.name /\ id = g.id /\ status = g.status
       /\ deck = g.deck /\ poker = g.poker
       /\ lastOp = "new" /\ lastRes = Ok /\ prev = g
       /\ closedOk = FALSE /\ closedBefore = FALSE
       /\ startedOk = FALSE /\ startedBefore = FALSE
       /\ entered = 0 /\ lastArg = NoArg
       /\ ctor = [name |-> n, id |-> i]
       /\ snap = NoSnapshot

\* The Game and the record of the call become what call op(arg), which
\* returned r, left.
Apply(op, r, arg) ==
  /\ name' = r.g.name /\ id' = r.g.id /\ status' = r.g.status
  /\ deck' = r.g.deck /\ poker' = r.g.poker
  /\ lastRes' = r.res /\ prev' = Self /\ lastArg' = arg
  /\ closedBefore' = closedOk
  /\ closedOk' = (closedOk \/ (op = "close" /\ IsOk(r.res)))
  /\ startedBefore' = startedOk
  /\ startedOk' = (startedOk \/ (op = "start" /\ IsOk(r.res)))
  /\ entered' = IF op = "enter" /\ IsOk(r.res) THEN entered + 1 ELSE entered
  /\ ctor' = ctor

Enter ==
  /\ lastOp' = "enter"
  /\ Apply("enter", enter(Self), NoArg)
  /\ snap' = Refresh(snap, enter(Self).g)

Start ==
  /\ lastOp' = "start"
  /\ Apply("start", start(Self), NoArg)
  /\ snap' = Refresh(snap, start(Self).g)

Close ==
  /\ lastOp' = "close"
  /\ Apply("close", close(Self), NoArg)
  /\ snap' = Refresh(snap, close(Self).g)

GetPartialShuffle ==
  /\ lastOp' = "get_partial_shuffle"
  /\ Apply("get_partial_shuffle", get_partial_shuffle(Self), NoArg)
  /\ snap' = PartialShuffle(get_partial_shuffle(Self))

SubmitShuffled ==
  /\ lastOp' = "submit_shuffled"
  /\ \E new_cards \in Hashes :
       /\ Apply("submit_shuffled", submit_shuffled(Self, new_cards), new_cards)
       /\ snap' = Refresh(snap, submit_shuffled(Self, new_cards).g)

FinishReveal ==
  /\ lastOp' = "finish_reveal"
  /\ Apply("finish_reveal", finish_reveal(Self), NoArg)
  /\ snap' = Refresh(snap, finish_reveal(Self).g)

SubmitRevealPart ==
  /\ lastOp' = "submit_reveal_part"
  /\ \E card \in Hashes :
       /\ Apply("submit_reveal_part", submit_reveal_part(Self, card), card)
       /\ snap' = Refresh(snap, submit_reveal_part(Self, card).g)

DeckState ==
  /\ lastOp' = "deck_state"
  /\ Apply("deck_state", Ret(Self, Ok), NoArg)
  /\ snap' = deck_state(Self)

PokerState ==
  /\ lastOp' = "poker_state"
  /\ Apply("poker_state", Ret(Self, Ok), NoArg)
  /\ snap' = poker_state(Self)

State ==
  /\ lastOp' = "state"
  /\ Apply("state", Ret(Self, Ok), NoArg)
  /\ snap' = state(Self)

\* The caller changes the Deck value deck_state() returned (it closes it).
\* A value of its own changes alone; a live reference changes the Game's deck.
MutateSnapshot ==
  /\ snap.kind = "deck"
  /\ lastOp' = "mutate_snapshot"
  /\ snap' = [snap EXCEPT !.deck = Deck_close(@)]
  /\ Apply("mutate_snapshot",
           Ret([Self EXCEPT !.deck = IF snap.live THEN Deck_close(@) ELSE @], Ok),
           NoArg)

Next ==
  \/ Enter
  \/ Start
  \/ Close
  \/ GetPartialShuffle
  \/ SubmitShuffled
  \/ FinishReveal
  \/ SubmitRevealPart
  \/ DeckState
  \/ PokerState
  \/ State
  \/ MutateSnapshot

Spec == Init /\ [][Next]_vars

\* ------------------------------------------- Borsh (de)serialization
\* derive(BorshSerialize, BorshDeserialize): an integer is written as its
\* bytes, least significant first; an enum as a one-byte variant index (the
\* order of declaration) followed by the variant's fields; a struct as its
\* fields in order; a String or Vec as a u32 length followed by the elements.
\* A decoder returns [val |-> the value read, rest |-> the bytes after it].
Read(v, rest) == [val |-> v, rest |-> rest]

RECURSIVE LE(_, _)
LE(n, w) == IF w = 0 THEN <<>> ELSE <<n % 256>> \o LE(n \div 256, w - 1)

RECURSIVE FromLE(_)
FromLE(b) == IF b = <<>> THEN 0 ELSE b[1] + 256 * FromLE(Tail(b))

TakeInt(b, w) == Read(FromLE(SubSeq(b, 1, w)), SubSeq(b, w + 1, Len(b)))

\* The UTF-8 bytes of the display names.
NameBytes(n) == IF n = "t1" THEN <<116, 49>> ELSE <<116, 50>>
SerString(n) == LE(Len(NameBytes(n)), 4) \o NameBytes(n)
DeString(b) ==
  LET len == TakeInt(b, 4)
      bytes == SubSeq(len.rest, 1, len.val)
  IN Read(CHOOSE n \in Names : NameBytes(n) = bytes,
          SubSeq(len.rest, len.val + 1, Len(len.rest)))

\* DeckStatus
SerDeckStatus(s) ==
  CASE s.kind = "Initiating" -> <<0>>
    [] s.kind = "Shuffling" -> <<1>> \o LE(s.turn, 8)
    [] s.kind = "Running" -> <<2>>
    [] s.kind = "Revealing" -> <<3>> \o LE(s.turn, 8)
    [] s.kind = "Closed" -> <<4>>
DeDeckStatus(b) ==
  LET r == Tail(b)
  IN CASE b[1] = 0 -> Read(DS_Initiating, r)
       [] b[1] = 1 -> Read(DS_Shuffling(TakeInt(r, 8).val), TakeInt(r, 8).rest)
       [] b[1] = 2 -> Read(DS_Running, r)
       [] b[1] = 3 -> Read(DS_Revealing(TakeInt(r, 8).val), TakeInt(r, 8).rest)
       [] b[1] = 4 -> Read(DS_Closed, r)

\* DeckError
DeckErrors ==
  <<"DeckInProgress", "DeckFull", "DeckNotInShufflingState", "InvalidCards",
    "DeckNotInRevealingState", "RevealInProgress">>
SerDeckError(e) == <<(CHOOSE k \in 1..Len(DeckErrors) : DeckErrors[k] = e) - 1>>
DeDeckError(b) == Read(DeckErrors[b[1] + 1], Tail(b))

\* PokerStatus
SerPokerStatus(s) == LE(s.turn, 8)
DePokerStatus(b) == Read(DS("PokerStep", TakeInt(b, 8).val), TakeInt(b, 8).rest)

\* A plausible slip: Closed is written with the variant index of Initiating.
SerStatus_closed_as_initiating(s) ==
  CASE s.tag = "Initiating" -> <<0>>
    [] s.tag = "Idle" -> <<1>>
    [] s.tag = "DeckAction" -> <<2>> \o SerDeckStatus(s.sub)
    [] s.tag = "PokerAction" -> <<3>> \o SerPokerStatus(s.sub)
    [] s.tag = "Closed" -> <<0>>

\* GameStatus
SerStatus(s) ==
  CASE s.tag = "Initiating" -> <<0>>
    [] s.tag = "Idle" -> <<1>>
    [] s.tag = "DeckAction" -> <<2>> \o SerDeckStatus(s.sub)
    [] s.tag = "PokerAction" -> <<3>> \o SerPokerStatus(s.sub)
    [] s.tag = "Closed" -> <<4>>
DeStatus(b) ==
  LET r == Tail(b)
  IN CASE b[1] = 0 -> Read(Initiating, r)
       [] b[1] = 1 -> Read(Idle, r)
       [] b[1] = 2 -> Read(DeckAction(DeDeckStatus(r).val), DeDeckStatus(r).rest)
       [] b[1] = 3 -> Read(PokerAction(DePokerStatus(r).val), DePokerStatus(r).rest)
       [] b[1] = 4 -> Read(Closed, r)

\* GameError
SerError(e) ==
  CASE e.variant = "DeckError" -> <<0>> \o SerDeckError(e.inner)
    [] e.variant = "RoomIdNotFound" -> <<1>>
    [] e.variant = "OngoingRound" -> <<2>>
DeError(b) ==
  LET r == Tail(b)
  IN CASE b[1] = 0 -> Read(DeckErr(DeDeckError(r).val), DeDeckError(r).rest)
       [] b[1] = 1 -> Read(RoomIdNotFound, r)
       [] b[1] = 2 -> Read(OngoingRound, r)

\* Deck
SerDeck(d) ==
  SerDeckStatus(d.status) \o LE(d.players, 8) \o LE(d.cards, 8) \o LE(d.num_cards, 8)
DeDeck(b) ==
  LET st == DeDeckStatus(b)
      pl == TakeInt(st.rest, 8)
      cd == TakeInt(pl.rest, 8)
      nc == TakeInt(cd.rest, 8)
  IN Read([status |-> st.val, players |-> pl.val, cards |-> cd.val,
           num_cards |-> nc.val], nc.rest)

\* Poker
RECURSIVE SerStakes(_)
SerStakes(v) == IF v = <<>> THEN <<>> ELSE LE(Head(v), 8) \o SerStakes(Tail(v))
RECURSIVE DeStakes(_, _)
DeStakes(b, n) ==
  IF n = 0 THEN Read(<<>>, b)
  ELSE LET x == TakeInt(b, 8)
           more == DeStakes(x.rest, n - 1)
       IN Read(<<x.val>> \o more.val, more.rest)
SerPoker(p) == LE(Len(p.players), 4) \o SerStakes(p.players) \o LE(p.steps, 8)
DePoker(b) ==
  LET len == TakeInt(b, 4)
      pl == DeStakes(len.rest, len.val)
      st == TakeInt(pl.rest, 8)
  IN Read([players |-> pl.val, steps |-> st.val], st.rest)

\* Game
SerGame(g) ==
  SerString(g.name) \o LE(g.id, 8) \o SerStatus(g.status)
    \o SerDeck(g.deck) \o SerPoker(g.poker)
DeGame(b) ==
  LET n == DeString(b)
      i == TakeInt(n.rest, 8)
      s == DeStatus(i.rest)
      d == DeDeck(s.rest)
      p == DePoker(d.rest)
  IN Read(GameRec(n.val, i.val, s.val, d.val, p.val), p.rest)

\* ------------------------------------------------------------ properties
\* The deck-forwarding operations that run the status reconciliation.
Forwarding == {"submit_shuffled", "finish_reveal", "submit_reveal_part"}
\* The deck protocol reports its ready-to-play status.
Ready == Deck_get_status(deck) = DS_Running
\* The last call returned an error / returned Ok.
Failed == ~IsOk(lastRes)
Succeeded == lastOp # "new" /\ IsOk(lastRes)
\* The last call left deck and betting state as they were.
SubProtocolsUnchanged == deck = prev.deck /\ poker = prev.poker

\* C1: start() returns Ok exactly when the status before the call is
\* Initiating or Idle; in every other status it returns OngoingRound and
\* leaves status, deck and betting state as they were.
C1_StartPhaseGuard ==
  lastOp = "start" =>
    /\ IsOk(lastRes) <=> prev.status \in {Initiating, Idle}
    /\ prev.status \notin {Initiating, Idle} =>
         /\ lastRes = OngoingRound
         /\ status = prev.status
         /\ SubProtocolsUnchanged

\* A second start() right after the round began: OngoingRound, status kept.
C1_Witness ==
  /\ lastOp = "start" /\ lastRes = OngoingRound
  /\ prev.status = DeckAction(DS_Shuffling(0))
  /\ status = DeckAction(DS_Shuffling(0))

\* C2: once close() has returned Ok, every later start, close, enter,
\* submit_shuffled, finish_reveal and submit_reveal_part returns an error,
\* changes neither deck nor betting state, and status stays Closed.
C2_ClosedAbsorbing ==
  [][closedOk =>
       /\ status = Closed /\ status' = Closed
       /\ lastOp' \in Forwarding \cup {"start", "close", "enter"} =>
            /\ ~IsOk(lastRes')
            /\ deck' = deck /\ poker' = poker]_vars

\* enter() was called on a closed Game and was rejected.
C2_Witness ==
  /\ closedBefore /\ lastOp = "enter" /\ Failed
  /\ status = Closed /\ Len(poker.players) = 1

\* C3: when a forwarding call succeeds and leaves the deck ready, the betting
\* protocol has been advanced by that call, the deck is the ready deck, and
\* status is PokerAction(betting status).
C3_HandoffSetsBettingStatus ==
  (lastOp \in Forwarding /\ Succeeded /\ Ready) =>
    /\ poker = Poker_next(prev.poker)
    /\ status = PokerAction(Poker_status(poker))

\* C4: in a round the betting protocol is advanced exactly once, on the
\* forwarding call that first leaves the deck ready, and status goes from
\* DeckAction to PokerAction on that call and not before.
C4_HandoffExactlyOnce ==
  /\ poker.steps = (IF Ready THEN 1 ELSE 0)
  /\ (lastOp \in Forwarding /\ Succeeded) =>
       (poker.steps = prev.poker.steps + 1
          <=> (Ready /\ prev.deck.status # DS_Running))
  /\ status.tag = "PokerAction" <=> Ready
  /\ (prev.status.tag = "PokerAction" => status.tag # "DeckAction")

\* C5: after a successful forwarding call that leaves the deck not ready,
\* status is DeckAction(the deck's status) and the betting state is unchanged.
C5_StatusMirrorsDeck ==
  (lastOp \in Forwarding /\ Succeeded /\ ~Ready) =>
    /\ status = DeckAction(Deck_get_status(deck))
    /\ poker = prev.poker

\* A reveal part was accepted and the status shows the deck's new substatus.
C5_Witness ==
  /\ lastOp = "submit_reveal_part" /\ Succeeded
  /\ prev.status = DeckAction(DS_Revealing(0))
  /\ status = DeckAction(DS_Revealing(1))

\* C6: whenever status is DeckAction(s), s is the deck's current status.
C6_NoStaleness ==
  status.tag = "DeckAction" => status.sub = Deck_get_status(deck)

\* C7: close() returns Ok exactly when the status before the call is
\* Initiating or Idle, and then the deck is closed and status is Closed;
\* otherwise it returns OngoingRound and changes nothing.
C7_ClosePhaseGuard ==
  lastOp = "close" =>
    IF prev.status \in {Initiating, Idle}
    THEN /\ IsOk(lastRes)
         /\ status = Closed
         /\ Deck_get_status(deck) = DS_Closed
         /\ poker = prev.poker
    ELSE /\ lastRes = OngoingRound
         /\ status = prev.status
         /\ SubProtocolsUnchanged

\* close() during the deck phase of a round: OngoingRound, status kept.
C7_Witness ==
  /\ lastOp = "close" /\ lastRes = OngoingRound
  /\ prev.status.tag = "DeckAction" /\ status = prev.status

\* C8: a call that returns an error leaves the whole Game (name, id, status,
\* deck, betting state) exactly as it was before the call.
C8_Atomicity ==
  Failed => Self = prev

\* enter() was rejected by a deck that already shuffles: nobody was registered.
C8_Witness ==
  /\ lastOp = "enter" /\ lastRes = DeckErr("DeckInProgress")
  /\ status.tag = "DeckAction" /\ Len(poker.players) = 1

\* The status changes the state machine summary allows.
AllowedTransitions ==
  { <<"Initiating", "DeckAction">>, <<"Idle", "DeckAction">>,
    <<"DeckAction", "DeckAction">>, <<"DeckAction", "PokerAction">>,
    <<"PokerAction", "Idle">>, <<"Initiating", "Closed">>, <<"Idle", "Closed">> }

\* C9: every change of status is one of the allowed transitions; Closed is
\* entered only from Initiating or Idle and never left.
C9_AllowedTransitions ==
  [][status' # status => <<status.tag, status'.tag>> \in AllowedTransitions]_vars

\* The status moved from one deck substatus to another.
C9_Witness ==
  /\ prev.status.tag = "DeckAction" /\ status.tag = "DeckAction"
  /\ status # prev.status /\ lastOp = "submit_shuffled"

\* C10: start() called in Initiating or Idle: when the deck accepts start,
\* status is DeckAction(the deck's status after its start) and the betting
\* state is unchanged; when the deck rejects it, the deck's error is returned
\* and status is unchanged.
C10_StartEffect ==
  (lastOp = "start" /\ prev.status \in {Initiating, Idle}) =>
    LET r == Deck_start(prev.deck)
    IN IF IsOk(r.res)
       THEN /\ IsOk(lastRes)
            /\ deck = r.deck
            /\ status = DeckAction(Deck_get_status(deck))
            /\ poker = prev.poker
       ELSE /\ lastRes = DeckErr(r.res.inner)
            /\ status = prev.status

\* start() began a round with two entrants.
C10_Witness ==
  /\ lastOp = "start" /\ Succeeded /\ prev.status = Initiating
  /\ status = DeckAction(DS_Shuffling(0)) /\ Len(poker.players) = 2

\* C11: every successful enter() forwards to the deck and adds exactly one
\* betting participant with stake 1000, keeping the earlier ones; after n
\* successful enter() calls the table holds exactly n participants, all with
\* stake 1000; a rejected enter() returns DeckError and adds none.
C11_EnterRegistration ==
  /\ Len(poker.players) = entered
  /\ \A k \in 1..Len(poker.players) : poker.players[k] = 1000
  /\ lastOp = "enter" =>
       IF IsOk(lastRes)
       THEN /\ poker.players = Append(prev.poker.players, 1000)
            /\ deck.players = prev.deck.players + 1
       ELSE /\ lastRes.variant = "DeckError"
            /\ poker = prev.poker

\* The third successful enter(): three participants are registered.
C11_Witness ==
  /\ lastOp = "enter" /\ Succeeded
  /\ entered = 3 /\ poker.players = <<1000, 1000, 1000>>

\* The operations that call the deck, and what the deck returned to the last call.
DeckCalls ==
  Forwarding \cup {"enter", "start", "get_partial_shuffle"}
DeckResultOfLastCall ==
  CASE lastOp = "enter" -> Deck_enter(prev.deck).res
    [] lastOp = "start" -> Deck_start(prev.deck).res
    [] lastOp = "get_partial_shuffle" -> Deck_get_partial_shuffle(prev.deck).res
    [] lastOp = "submit_shuffled" -> Deck_submit_shuffled(prev.deck, lastArg).res
    [] lastOp = "finish_reveal" -> Deck_finish_reveal(prev.deck).res
    [] lastOp = "submit_reveal_part" -> Deck_submit_reveal_part(prev.deck, lastArg).res
    [] OTHER -> Ok

\* C12: an error a Game operation returns is OngoingRound, only from start()
\* or close() and only when status is neither Initiating nor Idle, or it is
\* DeckError(e) with e the error the deck returned to that same call;
\* RoomIdNotFound is never returned.
C12_ErrorTaxonomy ==
  Failed =>
    /\ lastRes # RoomIdNotFound
    /\ \/ /\ lastRes = OngoingRound
          /\ lastOp \in {"start", "close"}
          /\ prev.status \notin {Initiating, Idle}
       \/ /\ lastOp \in DeckCalls
          /\ ~IsOk(DeckResultOfLastCall)
          /\ lastRes = DeckErr(DeckResultOfLastCall.inner)

\* An invalid card vector was rejected by the deck and the rejection returned as it is.
C12_Witness ==
  /\ lastOp = "submit_shuffled" /\ lastArg = InvalidHash
  /\ lastRes = DeckErr("InvalidCards")

\* The operations that only read.
ReadOnly == {"get_partial_shuffle", "deck_state", "poker_state", "state"}

\* C13: get_partial_shuffle, deck_state, poker_state and state change nothing
\* of the Game; what an accessor returns is the value at the time of the call,
\* no later Game operation alters it, and changing it does not alter the Game.
C13_ReadOnlyAndCopies ==
  [][/\ lastOp' \in ReadOnly => Self' = Self
     /\ lastOp' = "deck_state" => snap'.deck = deck
     /\ lastOp' = "poker_state" => snap'.poker = poker
     /\ lastOp' = "state" => snap'.status = status
     /\ lastOp' \notin ReadOnly \cup {"mutate_snapshot"} => snap' = snap
     /\ lastOp' = "mutate_snapshot" => Self' = Self]_vars

\* A deck snapshot taken before the round still shows the initial deck after
\* the Game's deck became ready.
C13_Witness ==
  /\ snap.kind = "deck" /\ Deck_get_status(snap.deck) = DS_Initiating
  /\ Ready /\ lastOp = "finish_reveal"

\* C14: Game::new(name, id) gives status Initiating, a fresh deck for 52 cards
\* in its initial substatus, an empty betting table, name and id as given;
\* no later operation changes id.
C14_InitialState ==
  /\ id = ctor.id
  /\ lastOp = "new" =>
       /\ name = ctor.name
       /\ status = Initiating
       /\ state(Self).status = Initiating
       /\ Deck_get_status(deck) = DS_Initiating
       /\ deck.num_cards = 52 /\ deck.players = 0
       /\ poker.players = <<>>

\* The Game right after construction.
C14_Witness ==
  /\ lastOp = "new" /\ name = "t2" /\ id = 1
  /\ status = Initiating /\ entered = 0

\* C15: is_initiating() is true exactly in the states where the shuffle has
\* not yet begun (the deck is in its initial substatus); is_active() is true
\* for every status except Closed.
C15_StatusPredicates ==
  /\ is_initiating(status) <=> Deck_get_status(deck) = DS_Initiating
  /\ is_active(status) <=> status.tag # "Closed"

\* Every deck substatus, GameStatus and GameError value within the bounds.
AllDeckStatuses ==
  {DS_Initiating, DS_Running, DS_Closed}
    \cup {DS_Shuffling(t) : t \in 0..MaxPlayers}
    \cup {DS_Revealing(t) : t \in 0..MaxPlayers}
AllStatuses ==
  {Initiating, Idle, Closed}
    \cup {DeckAction(d) : d \in AllDeckStatuses}
    \cup {PokerAction(DS("PokerStep", k)) : k \in 0..MaxPlayers}
AllErrors ==
  {RoomIdNotFound, OngoingRound}
    \cup {DeckErr(DeckErrors[k]) : k \in 1..Len(DeckErrors)}

\* C16: deserialize(serialize(v)) = v for the Game in every reachable state
\* (all bytes consumed), for every GameStatus and for every GameError.
StatusRoundTrip == \A s \in AllStatuses : DeStatus(SerStatus(s)) = Read(s, <<>>)
ErrorRoundTrip == \A e \in AllErrors : DeError(SerError(e)) = Read(e, <<>>)
C16_RoundTrip ==
  /\ DeGame(SerGame(Self)) = Read(Self, <<>>)
  /\ StatusRoundTrip
  /\ ErrorRoundTrip

\* A closed Game with two registered participants was serialized.
C16_Witness ==
  /\ status = Closed /\ entered = 2
  /\ SerStatus(status) = <<4>>
  /\ DeGame(SerGame(Self)).val.poker.players = <<1000, 1000>>

\* C17: status is never DeckAction(Running), and whenever the deck reports
\* ready, status is the betting phase.
C17_ReadyShowsBetting ==
  /\ status # DeckAction(DS_Running)
  /\ Ready => status.tag = "PokerAction"

\* C18: status is always Initiating, DeckAction(s) or Closed; Idle and
\* PokerAction(*) are never assigned.
C18_ReachableStatuses ==
  status.tag \in {"Initiating", "DeckAction", "Closed"}

\* The deck is ready and the status is still a DeckAction.
C18_Witness ==
  /\ Ready /\ status.tag = "DeckAction"
  /\ lastOp = "finish_reveal" /\ Succeeded

\* C19: once start() has returned Ok, every later start() and close() returns
\* OngoingRound.
C19_StartedNeverReopens ==
  (startedBefore /\ lastOp \in {"start", "close"}) => lastRes = OngoingRound

\* close() on a Game whose deck is ready: still OngoingRound.
C19_Witness ==
  /\ startedBefore /\ Ready
  /\ lastOp = "close" /\ lastRes = OngoingRound

\* C20: in every status enter() returns Ok exactly when the deck's entry
\* operation does, returns the deck's error otherwise, and never changes status.
C20_EnterUnguarded ==
  lastOp = "enter" =>
    LET r == Deck_enter(prev.deck).res
    IN /\ IsOk(lastRes) <=> IsOk(r)
       /\ ~IsOk(r) => lastRes = DeckErr(r.inner)
       /\ status = prev.status

\* enter() fails in the Initiating phase because the deck is full.
C20_Witness ==
  /\ lastOp = "enter" /\ prev.status = Initiating
  /\ lastRes = DeckErr("DeckFull") /\ status = Initiating

====
